---- MODULE Spec2Model ----
(***************************************************************************)
(* State-machine model of working.py: the ProductAnalyzer, the             *)
(* InventoryManager and the SalesAnalytics classes.  Every public method   *)
(* the properties below talk about is one action; the value it returns or  *)
(* the exception it raises is recorded in ret, the call itself in last.    *)
(*                                                                         *)
(* Python values are modelled as follows.  A dict with string keys is a    *)
(* record whose DOMAIN is the set of keys that are present, so a missing   *)
(* key is a missing field.  A dict used as a mapping (inventory,           *)
(* daily_sales) is a sequence of entries in insertion order with pairwise  *)
(* distinct keys, which is the order Python iterates it in.  A list is a   *)
(* sequence (1-based here, 0-based in the source).  Numbers are integers;  *)
(* the result of a true division a / b is kept as the exact fraction       *)
(* [num |-> a, den |-> b].  Calendar dates are integers ordered as the     *)
(* date strings are.  datetime.now() is any value of Times.                *)
(***************************************************************************)
EXTENDS Integers, Sequences, FiniteSets

VARIABLES
    products,       \* ProductAnalyzer.products
    total_revenue,  \* ProductAnalyzer.total_revenue
    report_file,    \* the report file: <<>> until written, then <<content>>
    data_file,      \* the content of the file ProductAnalyzer.data_file names
    inventory,      \* InventoryManager.inventory
    sales_data,     \* SalesAnalytics.sales_data
    daily_sales,    \* SalesAnalytics.daily_sales
    last,           \* the last call: [op, arg]
    ret             \* its outcome: [exc, val]

vars == <<products, total_revenue, report_file, data_file, inventory,
          sales_data, daily_sales, last, ret>>

analyzerVars == <<products, total_revenue, report_file, data_file>>
salesVars == <<sales_data, daily_sales>>

----------------------------------------------------------------------------
(* Bounds of the model *)

MaxProducts == 3

Names == {"A", "B"}
Prices == {1, 2}
Quantities == {1, 3}
Categories == {"Electronics"}

MaxStock == 3

ProductIds == {"PROD1000", "PROD1001"}
AddStocks == {-1, 0, 1}
InventoryPrices == {-1, 2}
Deltas == {-2, -1, 1}
Times == {1, 2}

MaxEvents == 3
MaxDate == 3
MaxAmount == 2
MaxWindow == 3
MaxRecorded == 4

----------------------------------------------------------------------------
(* Python helpers *)

None == "None"

Ok(v) == [exc |-> None, val |-> v]

Raise(e) == [exc |-> e, val |-> None]

Call(op, arg) == [op |-> op, arg |-> arg]

Min(a, b) == IF a < b THEN a ELSE b

Max(a, b) == IF a > b THEN a ELSE b

HasKey(d, k) == k \in DOMAIN d

\* s[0:n] for n >= 0
SliceTo(s, n) == SubSeq(s, 1, Min(n, Len(s)))

\* A dict as a mapping: entries [key, value] in insertion order, keys distinct.
DictHas(d, k) == \E i \in 1..Len(d) : d[i].key = k

DictIndex(d, k) == CHOOSE i \in 1..Len(d) : d[i].key = k

DictGet(d, k) == d[DictIndex(d, k)].value

\* d[k] = v: a new key goes last, an old key keeps its place
DictSet(d, k, v) ==
    IF DictHas(d, k) THEN [d EXCEPT ![DictIndex(d, k)].value = v]
    ELSE Append(d, [key |-> k, value |-> v])

\* s[j] for a 0-based j: a negative j counts from the end of the list
IndexInRange(s, j) == (0 - Len(s)) <= j /\ j < Len(s)

PyIndex(s, j) == IF j >= 0 THEN s[j + 1] ELSE s[Len(s) + j + 1]

RECURSIVE Sum(_)
Sum(s) == IF s = <<>> THEN 0 ELSE Head(s) + Sum(Tail(s))

\* sorted() of a set of integers
RECURSIVE Sorted(_)
Sorted(S) ==
    IF S = {} THEN <<>>
    ELSE LET m == CHOOSE x \in S : \A y \in S : x <= y
         IN  <<m>> \o Sorted(S \ {m})

----------------------------------------------------------------------------
(* ProductAnalyzer *)

\* The product dicts a data file may hold: 'price' or 'quantity' may be absent.
ProductDicts ==
    {[name |-> nm, price |-> p, quantity |-> q, category |-> c] :
        nm \in Names, p \in Prices, q \in Quantities, c \in Categories}
    \cup {[name |-> "A", quantity |-> q, category |-> c] :
        q \in Quantities, c \in Categories}
    \cup {[name |-> "A", price |-> p, category |-> c] :
        p \in Prices, c \in Categories}

ProductLists == UNION {[1..k -> ProductDicts] : k \in 0..MaxProducts}

\* The data file: absent, or a JSON object with a 'products' list.
NoFile == [exists |-> FALSE, products |-> <<>>]

DataFiles == {NoFile} \cup {[exists |-> TRUE, products |-> ps] : ps \in ProductLists}

\* product['price'] * product['quantity'] evaluates without a KeyError
RevenueDefined(product) == HasKey(product, "price") /\ HasKey(product, "quantity")

ProductRevenue(product) == product.price * product.quantity

RECURSIVE RevenueLoop(_, _, _)
RevenueLoop(ps, i, revenue) ==
    IF i > Len(ps) THEN Ok(revenue)
    ELSE IF ~RevenueDefined(ps[i]) THEN Raise("KeyError")
    ELSE RevenueLoop(ps, i + 1, revenue + ProductRevenue(ps[i]))

RevenueEntry(product) ==
    [name |-> product.name, revenue |-> ProductRevenue(product),
     category |-> product.category]

RECURSIVE BuildRevenues(_, _, _)
BuildRevenues(ps, i, acc) ==
    IF i > Len(ps) THEN Ok(acc)
    ELSE IF ~RevenueDefined(ps[i]) THEN Raise("KeyError")
    ELSE BuildRevenues(ps, i + 1, Append(acc, RevenueEntry(ps[i])))

ShouldSwapDescending(a, b) == a.revenue > b.revenue

ShouldSwapOrEqual(a, b) == a.revenue <= b.revenue

\* the comparison of the bubble sort
ShouldSwap(a, b) == a.revenue < b.revenue

SwapAt(s, j) == [s EXCEPT ![j] = s[j + 1], ![j + 1] = s[j]]

\* the inner loop, j = 0 .. len-2 in the source
RECURSIVE BubblePass(_, _)
BubblePass(s, j) ==
    IF j > Len(s) - 1 THEN s
    ELSE BubblePass(IF ShouldSwap(s[j], s[j + 1]) THEN SwapAt(s, j) ELSE s, j + 1)

\* the outer loop, len passes
RECURSIVE BubbleSort(_, _)
BubbleSort(s, i) ==
    IF i > Len(s) THEN s ELSE BubbleSort(BubblePass(s, 1), i + 1)

TopProducts(ps, n) ==
    LET built == BuildRevenues(ps, 1, <<>>)
    IN  IF built.exc # None THEN built
        ELSE Ok(SliceTo(BubbleSort(built.val, 1), n))

RECURSIVE PriceLoop(_, _, _)
PriceLoop(ps, i, total) ==
    IF i > Len(ps) THEN Ok(total)
    ELSE IF ~HasKey(ps[i], "price") THEN Raise("KeyError")
    ELSE PriceLoop(ps, i + 1, total + ps[i].price)

AveragePrice(ps) ==
    LET total == PriceLoop(ps, 1, 0)
    IN  IF total.exc # None THEN total
        ELSE IF Len(ps) = 0 THEN Raise("ZeroDivisionError")
        ELSE Ok([num |-> total.val, den |-> Len(ps)])

TopN == 5

\* Only FileNotFoundError is caught; the file read is the one data_file names.
load_data ==
    /\ products' = IF data_file.exists THEN data_file.products ELSE <<>>
    /\ last' = Call("load_data", <<>>)
    /\ ret' = Ok(None)
    /\ UNCHANGED <<total_revenue, report_file, data_file, inventory, salesVars>>

calculate_revenue ==
    LET r == RevenueLoop(products, 1, 0)
    IN  /\ total_revenue' = IF r.exc = None THEN r.val ELSE total_revenue
        /\ last' = Call("calculate_revenue", <<>>)
        /\ ret' = r
        /\ UNCHANGED <<products, report_file, data_file, inventory, salesVars>>

get_top_products(n) ==
    /\ last' = Call("get_top_products", <<n>>)
    /\ ret' = TopProducts(products, n)
    /\ UNCHANGED <<analyzerVars, inventory, salesVars>>

calculate_average_price ==
    /\ last' = Call("calculate_average_price", <<>>)
    /\ ret' = AveragePrice(products)
    /\ UNCHANGED <<analyzerVars, inventory, salesVars>>

\* The report is kept as the values of its lines, in the order the source
\* computes them; the banner and the "Generated:" line carry no state.  An
\* exception leaves before open(filename, 'w'), so the file is untouched.
generate_report ==
    LET avg == AveragePrice(products)
        top == TopProducts(products, TopN)
        exc == IF avg.exc # None THEN avg.exc ELSE top.exc
    IN  /\ report_file' =
            IF exc # None THEN report_file
            ELSE <<[total_products |-> Len(products),
                    total_revenue |-> total_revenue,
                    average_price |-> avg.val,
                    top_products |-> top.val]>>
        /\ last' = Call("generate_report", <<>>)
        /\ ret' = IF exc # None THEN Raise(exc) ELSE Ok(None)
        /\ UNCHANGED <<products, total_revenue, data_file, inventory, salesVars>>

InitAnalyzer ==
    /\ products = <<>>
    /\ total_revenue = 0
    /\ report_file = <<>>
    /\ data_file \in DataFiles
    /\ inventory = <<>>
    /\ sales_data = <<>>
    /\ daily_sales = <<>>
    /\ last = Call("__init__", <<>>)
    /\ ret = Ok(None)

NextAnalyzer ==
    \/ load_data
    \/ calculate_revenue
    \/ \E n \in 0..(MaxProducts + 1) : get_top_products(n)
    \/ calculate_average_price
    \/ generate_report

SpecAnalyzer == InitAnalyzer /\ [][NextAnalyzer]_vars

----------------------------------------------------------------------------
(* Properties of ProductAnalyzer *)

Range(f) == {f[x] : x \in DOMAIN f}

Injections(S, T) == {f \in [S -> T] : \A x, y \in S : x # y => f[x] # f[y]}

\* every product carries the fields of the Product data model
WellFormed(ps) == \A i \in 1..Len(ps) : RevenueDefined(ps[i])

\* entry e of the result stands for product p
EntryOf(e, p) ==
    /\ e.name = p.name
    /\ e.revenue = p.price * p.quantity
    /\ e.category = p.category

\* C1: for a list of products that all have a price and a quantity and for
\* n >= 0, get_top_products(n) returns without an error a list of length
\* min(n, number of products), in non-increasing order of revenue, whose
\* entries stand for pairwise distinct input products, and no omitted product
\* has a revenue strictly greater than a returned one.
C1_TopProducts ==
    (last.op = "get_top_products" /\ WellFormed(products)) =>
        /\ ret.exc = None
        /\ Len(ret.val) = Min(last.arg[1], Len(products))
        /\ \A i \in 1..(Len(ret.val) - 1) : ret.val[i].revenue >= ret.val[i + 1].revenue
        /\ \E f \in Injections(1..Len(ret.val), 1..Len(products)) :
              /\ \A i \in 1..Len(ret.val) : EntryOf(ret.val[i], products[f[i]])
              /\ \A k \in (1..Len(products)) \ Range(f) : \A i \in 1..Len(ret.val) :
                    products[k].price * products[k].quantity <= ret.val[i].revenue

\* C1 witness: three products out of revenue order, cut to two; and a call
\* with n above the number of products has also returned.
C1_Witness ==
    /\ last.op = "get_top_products"
    /\ WellFormed(products)
    /\ Len(products) = 3
    /\ last.arg[1] = 2
    /\ ProductRevenue(products[1]) < ProductRevenue(products[2])
    /\ ProductRevenue(products[2]) < ProductRevenue(products[3])
    /\ ret.exc = None
    /\ Len(ret.val) = 2

\* C2: in the result of get_top_products(n), entries of equal revenue are in
\* the order of their products in the input, and of two products of equal
\* revenue on either side of the cut the earlier one is kept.
C2_StableTies ==
    (last.op = "get_top_products" /\ WellFormed(products)) =>
        /\ ret.exc = None
        /\ \E f \in Injections(1..Len(ret.val), 1..Len(products)) :
              /\ \A i \in 1..Len(ret.val) : EntryOf(ret.val[i], products[f[i]])
              /\ \A i, j \in 1..Len(ret.val) :
                    (i < j /\ ret.val[i].revenue = ret.val[j].revenue) => f[i] < f[j]
              /\ \A k \in (1..Len(products)) \ Range(f) : \A i \in 1..Len(ret.val) :
                    products[k].price * products[k].quantity = ret.val[i].revenue
                        => f[i] < k

\* C2 witness: two products of different names tie behind a smaller one, and
\* the cut falls between them.
C2_Witness ==
    /\ last.op = "get_top_products"
    /\ WellFormed(products)
    /\ Len(products) = 3
    /\ last.arg[1] = 1
    /\ ProductRevenue(products[1]) < ProductRevenue(products[2])
    /\ ProductRevenue(products[2]) = ProductRevenue(products[3])
    /\ products[2].name # products[3].name
    /\ ret.exc = None
    /\ ret.val[1].name = products[2].name

\* price * quantity with a missing 'price' or 'quantity' counted as 0
RevenueOrZero(p) ==
    (IF HasKey(p, "price") THEN p.price ELSE 0)
        * (IF HasKey(p, "quantity") THEN p.quantity ELSE 0)

RECURSIVE SumRevenue(_)
SumRevenue(ps) ==
    IF ps = <<>> THEN 0 ELSE RevenueOrZero(Head(ps)) + SumRevenue(Tail(ps))

\* C5: calculate_revenue returns the sum of price * quantity over the
\* products, a product without price or quantity counting 0, without a fault;
\* the value returned is the cached total_revenue, and it is the total a
\* report written right afterwards shows.
C5_RevenueIsSum ==
    /\ last.op = "calculate_revenue" =>
            /\ ret.exc = None
            /\ ret.val = SumRevenue(products)
            /\ total_revenue = ret.val
    /\ (last.op = "generate_report" /\ ret.exc = None) =>
            report_file[1].total_revenue = total_revenue

\* C6: calculate_average_price on an empty product list returns 0 and raises
\* nothing, and generate_report on an empty product list writes its report.
C6_AverageOnEmpty ==
    /\ (last.op = "calculate_average_price" /\ products = <<>>) =>
            ret.exc = None /\ ret.val.num = 0
    /\ (last.op = "generate_report" /\ products = <<>>) =>
            ret.exc = None /\ Len(report_file) = 1

----------------------------------------------------------------------------
(* InventoryManager *)

DefaultReorderLevel == 20

ReorderLevels == {-1, 0, 2, DefaultReorderLevel}

StockRange == (0 - MaxStock)..MaxStock

UpdateOutcomeSilent(inv, product_id, quantity, now) ==
    IF ~DictHas(inv, product_id) THEN [inventory |-> inv, ret |-> Ok(None)]
    ELSE LET old == DictGet(inv, product_id)
         IN  [inventory |-> DictSet(inv, product_id,
                                [old EXCEPT !.stock = old.stock + quantity,
                                            !.last_updated = now]),
              ret |-> Ok(None)]

\* the new inventory and the outcome of update_stock
UpdateOutcome(inv, product_id, quantity, now) ==
    IF ~DictHas(inv, product_id) THEN [inventory |-> inv, ret |-> Raise("KeyError")]
    ELSE LET old == DictGet(inv, product_id)
         IN  [inventory |-> DictSet(inv, product_id,
                                [old EXCEPT !.stock = old.stock + quantity,
                                            !.last_updated = now]),
              ret |-> Ok(None)]

\* the test of get_out_of_stock
IsOutOfStock(stock) == stock = 0

RECURSIVE OutOfStockLoop(_, _, _)
OutOfStockLoop(inv, i, out_of_stock) ==
    IF i > Len(inv) THEN out_of_stock
    ELSE OutOfStockLoop(inv, i + 1,
            IF IsOutOfStock(inv[i].value.stock)
            THEN Append(out_of_stock, inv[i].value.name)
            ELSE out_of_stock)

NeedsReorderOrEqual(stock, reorder_level) == stock <= reorder_level

\* the test of reorder_needed
NeedsReorder(stock, reorder_level) == stock < reorder_level

RECURSIVE ReorderLoop(_, _, _, _)
ReorderLoop(inv, i, reorder_level, reorder_list) ==
    IF i > Len(inv) THEN reorder_list
    ELSE ReorderLoop(inv, i + 1, reorder_level,
            IF NeedsReorder(inv[i].value.stock, reorder_level)
            THEN Append(reorder_list,
                    [id |-> inv[i].key,
                     name |-> inv[i].value.name,
                     current_stock |-> inv[i].value.stock,
                     reorder_quantity |-> reorder_level - inv[i].value.stock])
            ELSE reorder_list)

add_product(product_id, name, stock, price, now) ==
    /\ inventory' = DictSet(inventory, product_id,
                        [name |-> name, stock |-> stock, price |-> price,
                         last_updated |-> now])
    /\ last' = Call("add_product", <<product_id, name, stock, price>>)
    /\ ret' = Ok(None)
    /\ UNCHANGED <<analyzerVars, salesVars>>

\* The first conjunct keeps the stock within StockRange, the bound of the model.
update_stock(product_id, quantity, now) ==
    LET out == UpdateOutcome(inventory, product_id, quantity, now)
    IN  /\ DictHas(inventory, product_id) =>
                DictGet(inventory, product_id).stock + quantity \in StockRange
        /\ inventory' = out.inventory
        /\ last' = Call("update_stock", <<product_id, quantity>>)
        /\ ret' = out.ret
        /\ UNCHANGED <<analyzerVars, salesVars>>

get_out_of_stock ==
    /\ last' = Call("get_out_of_stock", <<>>)
    /\ ret' = Ok(OutOfStockLoop(inventory, 1, <<>>))
    /\ UNCHANGED <<analyzerVars, inventory, salesVars>>

reorder_needed(reorder_level) ==
    /\ last' = Call("reorder_needed", <<reorder_level>>)
    /\ ret' = Ok(ReorderLoop(inventory, 1, reorder_level, <<>>))
    /\ UNCHANGED <<analyzerVars, inventory, salesVars>>

InitInventory ==
    /\ products = <<>>
    /\ total_revenue = 0
    /\ report_file = <<>>
    /\ data_file = NoFile
    /\ inventory = <<>>
    /\ sales_data = <<>>
    /\ daily_sales = <<>>
    /\ last = Call("__init__", <<>>)
    /\ ret = Ok(None)

NextInventory ==
    \/ \E product_id \in ProductIds, name \in Names, stock \in AddStocks,
          price \in InventoryPrices, now \in Times :
            add_product(product_id, name, stock, price, now)
    \/ \E product_id \in ProductIds, quantity \in Deltas, now \in Times :
            update_stock(product_id, quantity, now)
    \/ get_out_of_stock
    \/ \E reorder_level \in ReorderLevels : reorder_needed(reorder_level)

SpecInventory == InitInventory /\ [][NextInventory]_vars

----------------------------------------------------------------------------
(* Properties of InventoryManager *)

\* C7: add_product with a negative stock or a negative price raises an error
\* and leaves the inventory as it was; so the record an add_product has just
\* stored has stock >= 0 and price >= 0.
C7_AddProductValidates ==
    [][last'.op = "add_product" =>
        /\ (last'.arg[3] < 0 \/ last'.arg[4] < 0) =>
                (ret'.exc # None /\ inventory' = inventory)
        /\ ret'.exc = None =>
                /\ DictGet(inventory', last'.arg[1]).stock >= 0
                /\ DictGet(inventory', last'.arg[1]).price >= 0]_vars

\* C8: update_stock(id, delta) with an id that is not in the inventory raises
\* KeyError and leaves the inventory as it was; with an id that is present it
\* returns normally, adds delta to the stock of that record, and changes
\* neither the keys, nor another record, nor the name or price of that record.
C8_UpdateStock ==
    [][last'.op = "update_stock" =>
        IF ~DictHas(inventory, last'.arg[1])
        THEN ret'.exc = "KeyError" /\ inventory' = inventory
        ELSE /\ ret'.exc = None
             /\ Len(inventory') = Len(inventory)
             /\ \A i \in 1..Len(inventory) :
                    /\ inventory'[i].key = inventory[i].key
                    /\ inventory[i].key # last'.arg[1] =>
                            inventory'[i].value = inventory[i].value
                    /\ inventory[i].key = last'.arg[1] =>
                            /\ inventory'[i].value.stock =
                                    inventory[i].value.stock + last'.arg[2]
                            /\ inventory'[i].value.name = inventory[i].value.name
                            /\ inventory'[i].value.price = inventory[i].value.price
                            /\ DOMAIN inventory'[i].value = DOMAIN inventory[i].value]_vars

\* C8 witness: update_stock on an id the non-empty inventory does not hold
\* has raised KeyError.
C8_Witness ==
    /\ last.op = "update_stock"
    /\ ret.exc = "KeyError"
    /\ Len(inventory) = 1
    /\ ~DictHas(inventory, last.arg[1])

\* how often x occurs in the list s
Count(s, x) == Cardinality({i \in 1..Len(s) : s[i] = x})

\* C9: get_out_of_stock returns exactly the names of the records whose stock
\* is <= 0, each name as often as there are such records of that name.
C9_OutOfStock ==
    last.op = "get_out_of_stock" =>
        /\ ret.exc = None
        /\ \A nm \in Names :
              Count(ret.val, nm) =
                Cardinality({i \in 1..Len(inventory) :
                    inventory[i].value.name = nm /\ inventory[i].value.stock <= 0})

\* C10: reorder_needed(level) returns one entry for each record with
\* stock < level and none for another record, every entry giving the id, name
\* and stock of its record and reorder_quantity = max(0, level - stock) >= 0.
C10_ReorderNeeded ==
    last.op = "reorder_needed" =>
        /\ ret.exc = None
        /\ \A i \in 1..Len(inventory) :
              Cardinality({j \in 1..Len(ret.val) : ret.val[j].id = inventory[i].key})
                = IF inventory[i].value.stock < last.arg[1] THEN 1 ELSE 0
        /\ \A j \in 1..Len(ret.val) :
              /\ DictHas(inventory, ret.val[j].id)
              /\ ret.val[j].name = DictGet(inventory, ret.val[j].id).name
              /\ ret.val[j].current_stock = DictGet(inventory, ret.val[j].id).stock
              /\ ret.val[j].reorder_quantity =
                    Max(0, last.arg[1] - DictGet(inventory, ret.val[j].id).stock)
              /\ ret.val[j].reorder_quantity >= 0

\* C10 witness: at level 0 a record of negative stock is listed and a record
\* of stock 0 is not.
C10_Witness ==
    /\ last.op = "reorder_needed"
    /\ last.arg[1] = 0
    /\ Len(inventory) = 2
    /\ inventory[1].value.stock < 0
    /\ inventory[2].value.stock = 0
    /\ Len(ret.val) = 1
    /\ ret.val[1].reorder_quantity > 0

----------------------------------------------------------------------------
(* SalesAnalytics *)

\* peak_day = None, written as a date no sale has
NoDate == 0

Dates == 1..MaxDate

SaleEvents == {[date |-> d, amount |-> a] : d \in Dates, a \in 1..MaxAmount}

\* single daily amounts 10, 20, 30, 40 on four consecutive dates
SampleSales ==
    <<[date |-> 1, amount |-> 10], [date |-> 2, amount |-> 20],
      [date |-> 3, amount |-> 30], [date |-> 4, amount |-> 40]>>

SalesLists == UNION {[1..k -> SaleEvents] : k \in 0..MaxEvents} \cup {SampleSales}

RECURSIVE ProcessLoop(_, _, _)
ProcessLoop(sales, i, daily) ==
    IF i > Len(sales) THEN daily
    ELSE LET date == sales[i].date
             amount == sales[i].amount
             known == IF DictHas(daily, date) THEN daily ELSE DictSet(daily, date, <<>>)
         IN  ProcessLoop(sales, i + 1,
                DictSet(known, date, Append(DictGet(known, date), amount)))

RECURSIVE Recorded(_)
Recorded(daily) ==
    IF daily = <<>> THEN 0 ELSE Len(Head(daily).value) + Recorded(Tail(daily))

\* the inner loop over j in range(start_idx, end_idx)
RECURSIVE WindowLoop(_, _, _, _, _)
WindowLoop(daily, dates, j, end_idx, window_data) ==
    IF j >= end_idx THEN Ok(window_data)
    ELSE IF ~IndexInRange(dates, j) THEN Raise("IndexError")
    ELSE WindowLoop(daily, dates, j + 1, end_idx,
            window_data \o DictGet(daily, PyIndex(dates, j)))

\* the outer loop over i in range(len(dates))
RECURSIVE AverageLoop(_, _, _, _, _)
AverageLoop(daily, dates, i, window_size, moving_averages) ==
    IF i >= Len(dates) THEN Ok(moving_averages)
    ELSE LET window == WindowLoop(daily, dates, i - window_size + 1, i + 1, <<>>)
         IN  IF window.exc # None THEN window
             ELSE IF Len(window.val) = 0 THEN Raise("ZeroDivisionError")
             ELSE AverageLoop(daily, dates, i + 1, window_size,
                    DictSet(moving_averages, PyIndex(dates, i),
                        [num |-> Sum(window.val), den |-> Len(window.val)]))

MovingAverage(daily, window_size) ==
    AverageLoop(daily, Sorted({daily[k].key : k \in 1..Len(daily)}), 0,
                window_size, <<>>)

RECURSIVE PeakLoop(_, _, _, _)
PeakLoop(daily, i, max_sales, peak_day) ==
    IF i > Len(daily) THEN [peak_day |-> peak_day, max_sales |-> max_sales]
    ELSE LET daily_total == Sum(daily[i].value)
         IN  IF daily_total > max_sales
             THEN PeakLoop(daily, i + 1, daily_total, daily[i].key)
             ELSE PeakLoop(daily, i + 1, max_sales, peak_day)

\* Each call appends sales_data again; MaxRecorded bounds the amounts recorded.
process_daily_sales ==
    /\ Recorded(daily_sales) + Len(sales_data) <= MaxRecorded
    /\ daily_sales' = ProcessLoop(sales_data, 1, daily_sales)
    /\ last' = Call("process_daily_sales", <<>>)
    /\ ret' = Ok(None)
    /\ UNCHANGED <<analyzerVars, inventory, sales_data>>

calculate_moving_average(window_size) ==
    /\ last' = Call("calculate_moving_average", <<window_size>>)
    /\ ret' = MovingAverage(daily_sales, window_size)
    /\ UNCHANGED <<analyzerVars, inventory, salesVars>>

find_peak_sales_day ==
    /\ last' = Call("find_peak_sales_day", <<>>)
    /\ ret' = Ok(PeakLoop(daily_sales, 1, 0, NoDate))
    /\ UNCHANGED <<analyzerVars, inventory, salesVars>>

InitSales ==
    /\ products = <<>>
    /\ total_revenue = 0
    /\ report_file = <<>>
    /\ data_file = NoFile
    /\ inventory = <<>>
    /\ sales_data \in SalesLists
    /\ daily_sales = <<>>
    /\ last = Call("__init__", <<>>)
    /\ ret = Ok(None)

NextSales ==
    \/ process_daily_sales
    \/ \E window_size \in 1..MaxWindow : calculate_moving_average(window_size)
    \/ find_peak_sales_day

SpecSales == InitSales /\ [][NextSales]_vars

----------------------------------------------------------------------------
(* Properties of SalesAnalytics *)

\* the amounts of the dates at the sorted positions lo..hi (1-based)
RECURSIVE AmountsOf(_, _, _, _)
AmountsOf(daily, dates, lo, hi) ==
    IF lo > hi THEN <<>>
    ELSE DictGet(daily, dates[lo]) \o AmountsOf(daily, dates, lo + 1, hi)

SortedDates == Sorted({daily_sales[k].key : k \in 1..Len(daily_sales)})

\* C3: calculate_moving_average(w), w >= 1, returns one value per date, the
\* value of the i-th date in chronological order being the average of all
\* amounts of the dates at the sorted positions max(first, i-w+1) .. i; the
\* daily amounts 10, 20, 30, 40 give 10, 15, 20, 30 for w = 3.
C3_MovingAverage ==
    last.op = "calculate_moving_average" =>
        /\ ret.exc = None
        /\ Len(ret.val) = Len(SortedDates)
        /\ \A i \in 1..Len(SortedDates) :
              LET window == AmountsOf(daily_sales, SortedDates,
                                      Max(1, i - last.arg[1] + 1), i)
              IN  /\ ret.val[i].key = SortedDates[i]
                  /\ ret.val[i].value.num * Len(window)
                        = Sum(window) * ret.val[i].value.den
        /\ (daily_sales = ProcessLoop(SampleSales, 1, <<>>) /\ last.arg[1] = 3) =>
              \A i \in 1..4 :
                ret.val[i].value.num = <<10, 15, 20, 30>>[i] * ret.val[i].value.den

\* the total of a date
TotalOf(daily, date) == Sum(DictGet(daily, date))

\* C4: find_peak_sales_day returns the date of the highest total among the
\* recorded dates with that total, the earliest such date when several share
\* it, and no date with amount 0 when nothing is recorded.
C4_PeakSalesDay ==
    last.op = "find_peak_sales_day" =>
        /\ ret.exc = None
        /\ IF daily_sales = <<>>
           THEN ret.val = [peak_day |-> NoDate, max_sales |-> 0]
           ELSE LET all == {daily_sales[k].key : k \in 1..Len(daily_sales)}
                    top == {d \in all : \A e \in all :
                                TotalOf(daily_sales, e) <= TotalOf(daily_sales, d)}
                    first == CHOOSE d \in top : \A e \in top : d <= e
                IN  ret.val = [peak_day |-> first,
                               max_sales |-> TotalOf(daily_sales, first)]

====
